---- MODULE Spec2Model ----
(***************************************************************************)
(* madmom.ml.nn: average_predictions, NeuralNetwork (process, reset) and   *)
(* NeuralNetworkEnsemble, as state machines.                               *)
(*                                                                         *)
(* Four specifications share the variables:                                *)
(*   SpecAvg  average_predictions on lists of arrays and non-numeric values*)
(*   SpecTup  average_predictions on lists whose first member is a tuple   *)
(*   SpecNet  one NeuralNetwork receiving process and reset calls          *)
(*   Spec     one NeuralNetworkEnsemble evaluating its networks on workers *)
(***************************************************************************)
EXTENDS Integers, Sequences, FiniteSets, TLC

VARIABLES
    predictions,    \* average_predictions: the argument list
    avgPc,          \* "idle" | "ready" | "done"
    avgRes,         \* the value returned or the error raised
    layers,         \* NeuralNetwork.layers: the kinds of the layers, in order
    lstate,         \* the recurrent state each layer holds
    lastCall,       \* the latest call on the network: op, data, reset
    netRes,         \* what the latest process call returned
    callLog,        \* the layer invocations of the latest process call
    prevOp,         \* the call before the latest one
    repeated,       \* outcome of a process(x, reset=True) that repeats the call before it
    networks,       \* NeuralNetworkEnsemble: the network instances given, in order
    procs,          \* the processors the ParallelProcessor maps over
    ensFn,          \* ensemble_fn: "average" | "none"
    numThreads,     \* num_threads: how many workers evaluate at once
    nstate,         \* the layer states of every network instance
    ensCall,        \* the running ensemble call: data, reset
    ensPc,          \* "idle" | "stage" | "mapping" | "returned" | "raised"
    stage,          \* the processor of the sequence the call is at
    flow,           \* the data handed from processor to processor
    task,           \* per network of the map: "idle" | "pending" | "running" | "done" | "failed"
    taskOut,        \* per network: [net |-> instance evaluated, out |-> its prediction]
    raced,          \* the evaluations that shared their instance with another one in flight
    overtaken,      \* whether an evaluation completed before one queued ahead of it
    startState,     \* nstate when the call began
    combinerArg,    \* what ensemble_fn was invoked with in this call
    ensRes          \* what the call returned or raised

avgVars == <<predictions, avgPc, avgRes>>
netVars == <<layers, lstate, lastCall, netRes, callLog, prevOp, repeated>>
ensVars == <<networks, procs, ensFn, numThreads, nstate, ensCall, ensPc, stage, flow,
             task, taskOut, raced, overtaken, startState, combinerArg, ensRes>>
vars == <<avgVars, netVars, ensVars>>

(***************************************************************************)
(* Bounds of the model.                                                    *)
(***************************************************************************)
MaxN == 3           \* predictions in one list of arrays
MaxLen == 3         \* elements of a 1-d array
MaxArity == 2       \* slots of a multi-task tuple
MaxMembers == 2     \* predictions in one list that starts with a tuple
MaxLayers == 2      \* layers of a network
MaxFrames == 2      \* frames (rows) of an input matrix
MaxFeat == 2        \* features (columns) of an input matrix
Modulus == 3        \* the layers of the model compute modulo this
MaxK == 2           \* networks of an ensemble
MaxThreads == 2     \* num_threads

\* the first elements of the arrays of the model
Vals == {-1, 0, 2}

(***************************************************************************)
(* Numbers.  A float is an exact rational <<numerator, denominator>> in    *)
(* lowest terms with a positive denominator, so that the true division of  *)
(* line 45 (from __future__ import division, line 11) is a real division.  *)
(***************************************************************************)
Abs(x) == IF x < 0 THEN -x ELSE x

RECURSIVE GCD(_, _)
GCD(a, b) == IF b = 0 THEN a ELSE GCD(b, a % b)

RatNorm(n, d) ==
    LET g == GCD(Abs(n), d)
    IN  <<n \div g, d \div g>>

Rat(n) == <<n, 1>>

\* numpy add of two floats
RatAdd(p, q) == RatNorm(p[1] * q[2] + q[1] * p[2], p[2] * q[2])

\* numpy true_divide of a float by the positive int len(pred)
RatDiv(p, n) == RatNorm(p[1], p[2] * n)

(***************************************************************************)
(* Python values.  One record shape for all of them:                       *)
(*   kind "arr"   numpy array: shape (a tuple of axis sizes, <<>> for a    *)
(*                0-d array) and its elements in row-major order           *)
(*   kind "tup"   tuple of values (a multi-task prediction)                *)
(*   kind "list"  list of arrays (what a multi-task output layer returns)  *)
(*   kind "none"  a value that is neither numeric nor iterable (None)      *)
(*   kind "int"   the int 0 that the builtin sum starts from               *)
(*   kind "TypeError" | "ValueError" | "IndexError"  a raised exception    *)
(* Arrays are predictions as NeuralNetwork.process returns them: squeezed, *)
(* no axis of size 1.                                                      *)
(***************************************************************************)
Arr(shape, flat) == [kind |-> "arr", shape |-> shape, flat |-> flat, items |-> <<>>]
Tup(items) == [kind |-> "tup", shape |-> <<>>, flat |-> <<>>, items |-> items]
None == [kind |-> "none", shape |-> <<>>, flat |-> <<>>, items |-> <<>>]
Zero == [kind |-> "int", shape |-> <<>>, flat |-> <<Rat(0)>>, items |-> <<>>]
Raised(e) == [kind |-> e, shape |-> <<>>, flat |-> <<>>, items |-> <<>>]

PyList(items) == [kind |-> "list", shape |-> <<>>, flat |-> <<>>, items |-> items]

IsErr(v) == v.kind \in {"TypeError", "ValueError", "IndexError"}

\* is `s` the trailing part of shape `t`
IsSuffix(s, t) ==
    /\ Len(s) <= Len(t)
    /\ \A i \in 1..Len(s) : s[i] = t[Len(t) - Len(s) + i]

\* a + b for two numpy arrays, with numpy's broadcasting of squeezed shapes:
\* equal shapes add elementwise, a shape that is the trailing part of the
\* other (a 0-d array always is) is repeated along the leading axes, anything
\* else raises ValueError (operands could not be broadcast together)
NpAdd(a, b) ==
    IF IsSuffix(a.shape, b.shape)
    THEN Arr(b.shape, [k \in 1..Len(b.flat) |->
                RatAdd(a.flat[((k - 1) % Len(a.flat)) + 1], b.flat[k])])
    ELSE IF IsSuffix(b.shape, a.shape)
    THEN Arr(a.shape, [k \in 1..Len(a.flat) |->
                RatAdd(a.flat[k], b.flat[((k - 1) % Len(b.flat)) + 1])])
    ELSE Raised("ValueError")

\* acc + v as the builtin sum evaluates it; acc is the int 0, an array or an
\* exception already raised.  int + tuple, int + None and ndarray + None are
\* unsupported operand types.  ndarray + tuple is outside the model: the
\* lists of the model that start with an array hold no tuple.
PyAdd(acc, v) ==
    IF IsErr(acc) THEN acc
    ELSE IF v.kind # "arr" THEN Raised("TypeError")
    ELSE IF acc.kind = "int" THEN v
    ELSE NpAdd(acc, v)

RECURSIVE PySumFrom(_, _, _)
PySumFrom(acc, pred, k) ==
    IF k > Len(pred) THEN acc
    ELSE PySumFrom(PyAdd(acc, pred[k]), pred, k + 1)

\* the builtin sum(pred): a left fold of + starting from the int 0
PySum(pred) == PySumFrom(Zero, pred, 1)

\* s / n for what sum returned
PyTrueDiv(s, n) ==
    IF IsErr(s) THEN s
    ELSE Arr(s.shape, [k \in 1..Len(s.flat) |-> RatDiv(s.flat[k], n)])

\* avg with the divisor off by one
AvgOffByOne(pred) == PyTrueDiv(PySum(pred), Len(pred) + 1)

\* the nested avg(pred): sum(pred) / len(pred)
Avg(pred) == PyTrueDiv(PySum(pred), Len(pred))

\* can zip iterate over v
Iterable(v) == v.kind = "tup" \/ (v.kind = "arr" /\ Len(v.shape) >= 1)

\* what iterating v yields: a tuple's items, an array's sub-arrays along its
\* first axis
Iter(v) ==
    IF v.kind = "tup" THEN v.items
    ELSE LET n == v.shape[1]
             w == Len(v.flat) \div n
         IN  [i \in 1..n |->
                Arr(Tail(v.shape), SubSeq(v.flat, (i - 1) * w + 1, i * w))]

RECURSIVE MinLen(_, _)
MinLen(seqs, k) ==
    IF k = Len(seqs) THEN Len(Iter(seqs[k]))
    ELSE LET r == MinLen(seqs, k + 1)
             l == Len(Iter(seqs[k]))
         IN  IF l < r THEN l ELSE r

\* zip that pairs slot i of the first member with slot i of the others read
\* from the back
ZipReversed(preds) ==
    [i \in 1..MinLen(preds, 1) |->
        [k \in 1..Len(preds) |->
            IF k = 1 THEN Iter(preds[k])[i]
            ELSE Iter(preds[k])[Len(Iter(preds[k])) + 1 - i]]]

\* list(zip(*preds)) for iterable members: group i holds the i-th item of
\* every member, and there are as many groups as the shortest member has items
Zip(preds) ==
    [i \in 1..MinLen(preds, 1) |-> [k \in 1..Len(preds) |-> Iter(preds[k])[i]]]

\* the first exception among vs, or Tup(vs) when there is none
RECURSIVE TupleOrRaise(_, _)
TupleOrRaise(vs, k) ==
    IF k > Len(vs) THEN Tup(vs)
    ELSE IF IsErr(vs[k]) THEN vs[k]
    ELSE TupleOrRaise(vs, k + 1)

\* average_predictions that refuses members of different lengths, as
\* zip(*predictions, strict=True) would
AverageStrict(preds) ==
    IF Len(preds) = 1 THEN preds[1]
    ELSE IF Len(preds) = 0 THEN Raised("IndexError")
    ELSE IF preds[1].kind = "tup"
    THEN IF \E k \in 1..Len(preds) : ~Iterable(preds[k])
         THEN Raised("TypeError")
         ELSE IF \E k \in 1..Len(preds) : Len(Iter(preds[k])) # Len(Iter(preds[1]))
         THEN Raised("ValueError")
         ELSE LET groups == Zip(preds)
              IN  TupleOrRaise([i \in 1..Len(groups) |-> Avg(groups[i])], 1)
    ELSE Avg(preds)

\* average_predictions without the early return of lines 40-41
AverageNoShortcut(preds) ==
    IF Len(preds) = 0 THEN Raised("IndexError")
    ELSE IF preds[1].kind = "tup"
    THEN IF \E k \in 1..Len(preds) : ~Iterable(preds[k])
         THEN Raised("TypeError")
         ELSE LET groups == Zip(preds)
              IN  TupleOrRaise([i \in 1..Len(groups) |-> Avg(groups[i])], 1)
    ELSE Avg(preds)

\* average_predictions(predictions)
AveragePredictions(preds) ==
    IF Len(preds) = 1 THEN preds[1]
    ELSE IF Len(preds) = 0 THEN Raised("IndexError")
    ELSE IF preds[1].kind = "tup"
    THEN IF \E k \in 1..Len(preds) : ~Iterable(preds[k])
         THEN Raised("TypeError")
         ELSE LET groups == Zip(preds)
              IN  TupleOrRaise([i \in 1..Len(groups) |-> Avg(groups[i])], 1)
    ELSE Avg(preds)

(***************************************************************************)
(* Layers.  The layer classes live outside this package; the network sees  *)
(* them as callables layer(data, reset=...) with a reset() method.  Three  *)
(* kinds stand for them:                                                   *)
(*   "ff"     stateless, maps every element x to 2x + 1                    *)
(*   "rnn"    recurrent: holds a number h, cleared first when the reset    *)
(*            flag is set; frame by frame it adds h to the frame and       *)
(*            remembers the first output of the frame plus one             *)
(*   "multi"  stateless multi-task output layer: returns the list          *)
(*            [data, data + 1] and can only be the last layer              *)
(* All of them work on 2-d data of any width, modulo Modulus.              *)
(***************************************************************************)
LayerKinds == {"ff", "rnn", "multi"}

\* the state a layer is constructed with and reset() restores
InitialH == 0

Num(q) == q[1]

FfActivate(data) ==
    Arr(data.shape, [k \in 1..Len(data.flat) |-> Rat((2 * Num(data.flat[k]) + 1) % Modulus)])

HeadActivate(data) ==
    Arr(data.shape, [k \in 1..Len(data.flat) |-> Rat((Num(data.flat[k]) + 1) % Modulus)])

\* frames t..T of a recurrent layer: [out |-> elements so far, h |-> state]
RECURSIVE RnnFrames(_, _, _, _)
RnnFrames(data, t, h, out) ==
    LET T == data.shape[1]
        F == data.shape[2]
    IN  IF t > T THEN [out |-> Arr(data.shape, out), h |-> h]
        ELSE LET row == [f \in 1..F |->
                            Rat((Num(data.flat[(t - 1) * F + f]) + h) % Modulus)]
             IN  RnnFrames(data, t + 1, (Num(row[1]) + 1) % Modulus, out \o row)

\* layer(data, reset=reset): [out |-> the output block, h |-> the state left]
LayerCall(kind, h, data, reset) ==
    IF kind = "ff" THEN [out |-> FfActivate(data), h |-> h]
    ELSE IF kind = "multi"
    THEN [out |-> PyList(<<data, HeadActivate(data)>>), h |-> h]
    ELSE RnnFrames(data, 1, IF reset THEN InitialH ELSE h, <<>>)

\* layer.reset(): the state it leaves
LayerReset(kind, h) == InitialH

(***************************************************************************)
(* NeuralNetwork                                                           *)
(***************************************************************************)
\* lines 113-114: an ndarray of fewer than 2 dimensions gets axes of size 1
\* in front (ndmin=2); anything else goes to the layers as it is
AtLeast2d(data) ==
    IF data.kind = "arr" /\ Len(data.shape) < 2
    THEN Arr(IF Len(data.shape) = 0 THEN <<1, 1>> ELSE <<1>> \o data.shape, data.flat)
    ELSE data

\* ndarray.squeeze(): the axes of size 1 dropped
Squeeze(a) == Arr(SelectSeq(a.shape, LAMBDA n : n # 1), a.flat)

\* lines 120-124: the squeezed array, or for a list of arrays (which has no
\* squeeze attribute) the tuple of its squeezed members
SqueezeOutput(data) ==
    IF data.kind = "arr" THEN Squeeze(data)
    ELSE Tup([i \in 1..Len(data.items) |-> Squeeze(data.items[i])])

\* lines 116-118: the loop over self.layers from layer i on, with the record
\* of each invocation
RECURSIVE RunLayers(_, _, _, _, _, _)
RunLayers(ls, st, data, reset, i, log) ==
    IF i > Len(ls) THEN [data |-> data, st |-> st, log |-> log]
    ELSE LET r == LayerCall(ls[i], st[i], data, reset)
         IN  RunLayers(ls, [st EXCEPT ![i] = r.h], r.out, reset, i + 1,
                Append(log, [layer |-> i, reset |-> reset, input |-> data, output |-> r.out]))

\* process that never hands the reset flag on to the layers
ProcessDropsReset(ls, st, data, reset) ==
    LET r == RunLayers(ls, st, AtLeast2d(data), FALSE, 1, <<>>)
    IN  [out |-> SqueezeOutput(r.data), st |-> r.st, log |-> r.log]

\* process whose loop leaves out the first layer of a network of several
ProcessSkipsLayer(ls, st, data, reset) ==
    LET r == RunLayers(ls, st, AtLeast2d(data), reset, IF Len(ls) > 1 THEN 2 ELSE 1, <<>>)
    IN  [out |-> SqueezeOutput(r.data), st |-> r.st, log |-> r.log]

\* NeuralNetwork.process(data, reset): [out |-> the prediction returned,
\* st |-> the layer states left, log |-> the layer invocations made]
NetProcess(ls, st, data, reset) ==
    LET r == RunLayers(ls, st, AtLeast2d(data), reset, 1, <<>>)
    IN  [out |-> SqueezeOutput(r.data), st |-> r.st, log |-> r.log]

\* reset that stops after the first layer
ResetFirstOnly(ls, st) ==
    [i \in 1..Len(ls) |-> IF i = 1 THEN LayerReset(ls[i], st[i]) ELSE st[i]]

\* NeuralNetwork.reset(): the layer states left
NetReset(ls, st) == [i \in 1..Len(ls) |-> LayerReset(ls[i], st[i])]

\* the layer states of a network just constructed
FreshState(ls) == [i \in 1..Len(ls) |-> InitialH]

\* the layer lists of the model: a multi-task layer only as the last one
Networks ==
    {ls \in UNION {[1..n -> LayerKinds] : n \in 1..MaxLayers} :
        \A i \in 1..(Len(ls) - 1) : ls[i] # "multi"}

\* the inputs of the model: 0-d, 1-d and 2-d arrays of consecutive numbers
\* starting at 0 or 1
InputOf(shape, n, b) == Arr(shape, [j \in 1..n |-> Rat((b + j - 1) % Modulus)])

InputBases == {0, 1}

NetInputs ==
    {InputOf(<<>>, 1, b) : b \in InputBases}
        \cup {InputOf(<<f>>, f, b) : f \in 1..MaxFeat, b \in InputBases}
        \cup {InputOf(<<t, f>>, t * f, b) :
                t \in 1..MaxFrames, f \in 1..MaxFeat, b \in InputBases}

NoCall == [op |-> "none", data |-> None, reset |-> FALSE]

NetIdle ==
    /\ layers = <<>>
    /\ lstate = <<>>
    /\ lastCall = NoCall
    /\ netRes = None
    /\ callLog = <<>>
    /\ prevOp = "none"
    /\ repeated = "none"

(***************************************************************************)
(* NeuralNetworkEnsemble.  The constructor (lines 169-174) builds a        *)
(* ParallelProcessor over the networks and a SequentialProcessor over      *)
(* (that, ensemble_fn).  Both classes live in madmom.processors, outside   *)
(* this package: a SequentialProcessor hands the data from processor to    *)
(* processor, passing it on unchanged where the processor is None; a       *)
(* ParallelProcessor maps the processors over the data on at most          *)
(* num_threads workers, returns the results in the order of the processors *)
(* and lets the first error raised propagate.                              *)
(***************************************************************************)
Instances == 1..MaxK

\* the layers of network instance n
Catalog(n) == IF n % 2 = 1 THEN <<"rnn">> ELSE <<"ff", "rnn">>

\* every state the layers ls can be in
AllStates(ls) == [1..Len(ls) -> 0..(Modulus - 1)]

\* every closure evaluating the network bound last
ProcessorsLateBound(nets) == [i \in 1..Len(nets) |-> nets[Len(nets)]]

\* lines 171-172: ParallelProcessor(networks, ...): the networks themselves,
\* in the order given, are the processors mapped over
PoolProcessors(nets) == nets

\* the sequence with ensemble_fn ahead of the networks
StagesCombinerFirst(fn) == <<fn, "networks">>

\* lines 173-174: SequentialProcessor((networks_processor, ensemble_fn))
Stages(fn) == <<"networks", fn>>

\* what a processor that is not the ParallelProcessor does to the data: None
\* passes it on, average_predictions gets it as its list of predictions
ApplyProcessor(fn, v) ==
    IF fn = "none" THEN v
    ELSE IF v.kind = "list" THEN AveragePredictions(v.items)
    ELSE IF Iterable(v) THEN AveragePredictions(Iter(v))
    ELSE Raised("TypeError")

\* the lists of networks an ensemble is constructed from: instance 1 first,
\* then at every place an instance given before or the next new one
NetworkLists ==
    {l \in UNION {[1..k -> Instances] : k \in 1..MaxK} :
        /\ l[1] = 1
        /\ \A i \in 2..Len(l) : \E j \in 1..(i - 1) : l[i] <= l[j] + 1}

NotCalled == [kind |-> "notcalled", shape |-> <<>>, flat |-> <<>>, items |-> <<>>]

NoOut == [net |-> 0, out |-> None]

\* the data the ensemble is called with: two frames of one feature
EnsInputs == {InputOf(<<2, 1>>, 2, 1)}

AvgIdle == predictions = <<>> /\ avgPc = "idle" /\ avgRes = None

EnsIdle ==
    /\ networks = <<>> /\ procs = <<>> /\ ensFn = "none" /\ numThreads = 0
    /\ nstate = <<>> /\ ensCall = NoCall /\ ensPc = "idle" /\ stage = 0
    /\ flow = None /\ task = <<>> /\ taskOut = <<>> /\ raced = {}
    /\ overtaken = FALSE /\ startState = <<>> /\ combinerArg = NotCalled
    /\ ensRes = None

\* the states network instance n can be in when the ensemble is called: as
\* constructed, or as an earlier process call on the data left it
UsedStates(n) ==
    {FreshState(Catalog(n))} \cup
        {NetProcess(Catalog(n), FreshState(Catalog(n)), d, FALSE).st : d \in EnsInputs}

\* NeuralNetworkEnsemble(networks, ensemble_fn, num_threads): the networks
\* given may have processed data before, and one instance may be given more
\* than once; the instances not given stay as constructed
Init ==
    /\ networks \in NetworkLists
    /\ procs = PoolProcessors(networks)
    /\ ensFn \in {"average", "none"}
    /\ numThreads \in 1..MaxThreads
    /\ nstate \in {st \in [Instances -> UNION {UsedStates(n) : n \in Instances}] :
            \A n \in Instances :
                /\ st[n] \in UsedStates(n)
                /\ (\A i \in 1..Len(networks) : networks[i] # n) =>
                        st[n] = FreshState(Catalog(n))}
    /\ ensCall = NoCall
    /\ ensPc = "idle"
    /\ stage = 0
    /\ flow = None
    /\ task = [i \in 1..Len(networks) |-> "idle"]
    /\ taskOut = [i \in 1..Len(networks) |-> NoOut]
    /\ raced = {}
    /\ overtaken = FALSE
    /\ startState = nstate
    /\ combinerArg = NotCalled
    /\ ensRes = None
    /\ AvgIdle
    /\ NetIdle

Running == {i \in 1..Len(task) : task[i] = "running"}

\* ensemble.process(data, reset=reset): the sequence starts with the data.
\* A behaviour follows one call; what earlier calls left behind is in Init.
EnsProcess(data, reset) ==
    /\ ensPc = "idle"
    /\ ensCall' = [op |-> "process", data |-> data, reset |-> reset]
    /\ ensPc' = "stage"
    /\ stage' = 1
    /\ flow' = data
    /\ task' = [i \in 1..Len(networks) |-> "idle"]
    /\ taskOut' = [i \in 1..Len(networks) |-> NoOut]
    /\ raced' = {}
    /\ overtaken' = FALSE
    /\ startState' = nstate
    /\ combinerArg' = NotCalled
    /\ ensRes' = None
    /\ UNCHANGED <<networks, procs, ensFn, numThreads, nstate, avgVars, netVars>>

\* the sequence reaches the ParallelProcessor: one evaluation per processor
\* is queued
BeginMap ==
    /\ ensPc = "stage" /\ stage <= Len(Stages(ensFn))
    /\ Stages(ensFn)[stage] = "networks"
    /\ ensPc' = "mapping"
    /\ task' = [i \in 1..Len(procs) |-> "pending"]
    /\ UNCHANGED <<networks, procs, ensFn, numThreads, nstate, ensCall, stage, flow,
                   taskOut, raced, overtaken, startState, combinerArg, ensRes,
                   avgVars, netVars>>

\* a free worker takes the next queued evaluation; with one worker the map
\* is sequential and stops at the first error
StartEval(i) ==
    /\ ensPc = "mapping" /\ task[i] = "pending"
    /\ \A j \in 1..(i - 1) : task[j] # "pending"
    /\ Cardinality(Running) < numThreads
    /\ numThreads = 1 => \A j \in 1..Len(task) : task[j] # "failed"
    /\ task' = [task EXCEPT ![i] = "running"]
    /\ raced' = IF \E j \in Running : procs[j] = procs[i]
                THEN raced \cup {i} \cup {j \in Running : procs[j] = procs[i]}
                ELSE raced
    /\ UNCHANGED <<networks, procs, ensFn, numThreads, nstate, ensCall, ensPc, stage,
                   flow, taskOut, overtaken, startState, combinerArg, ensRes,
                   avgVars, netVars>>

\* evaluation i returns: procs[i](data, reset=reset) has run on its instance.
\* An evaluation that shared its instance with another one in flight raced
\* with it on the layer states: it may have seen any state and any flag.
FinishEval(i) ==
    /\ ensPc = "mapping" /\ task[i] = "running"
    /\ LET n == procs[i]
           ls == Catalog(n)
       IN  \E st \in (IF i \in raced THEN AllStates(ls) ELSE {nstate[n]}),
              rs \in (IF i \in raced THEN BOOLEAN ELSE {ensCall.reset}) :
                /\ nstate' = [nstate EXCEPT ![n] = NetProcess(ls, st, flow, rs).st]
                /\ taskOut' = [taskOut EXCEPT
                        ![i] = [net |-> n, out |-> NetProcess(ls, st, flow, rs).out]]
    /\ task' = [task EXCEPT ![i] = "done"]
    /\ overtaken' = (overtaken \/ \E j \in 1..(i - 1) : task[j] = "running")
    /\ UNCHANGED <<networks, procs, ensFn, numThreads, ensCall, ensPc, stage, flow,
                   raced, startState, combinerArg, ensRes, avgVars, netVars>>

\* evaluation i raises, before or after its layers ran
FailEval(i) ==
    /\ ensPc = "mapping" /\ task[i] = "running"
    /\ LET n == procs[i]
       IN  \E st \in {nstate[n], NetProcess(Catalog(n), nstate[n], flow, ensCall.reset).st} :
                nstate' = [nstate EXCEPT ![n] = st]
    /\ task' = [task EXCEPT ![i] = "failed"]
    /\ overtaken' = (overtaken \/ \E j \in 1..(i - 1) : task[j] = "running")
    /\ UNCHANGED <<networks, procs, ensFn, numThreads, ensCall, ensPc, stage, flow,
                   taskOut, raced, startState, combinerArg, ensRes, avgVars, netVars>>

\* the map lets the error of a failed evaluation propagate: the call raises
Abort ==
    /\ ensPc = "mapping" /\ Running = {}
    /\ \E i \in 1..Len(task) : task[i] = "failed"
    /\ ensPc' = "raised"
    /\ ensRes' = Raised("ValueError")
    /\ UNCHANGED <<networks, procs, ensFn, numThreads, nstate, ensCall, stage, flow,
                   task, taskOut, raced, overtaken, startState, combinerArg,
                   avgVars, netVars>>

\* every evaluation returned: the map hands on the list of the results in
\* the order of the processors
Gather ==
    /\ ensPc = "mapping"
    /\ \A i \in 1..Len(task) : task[i] = "done"
    /\ flow' = PyList([i \in 1..Len(task) |-> taskOut[i].out])
    /\ stage' = stage + 1
    /\ ensPc' = "stage"
    /\ UNCHANGED <<networks, procs, ensFn, numThreads, nstate, ensCall, task, taskOut,
                   raced, overtaken, startState, combinerArg, ensRes, avgVars, netVars>>

\* the sequence reaches ensemble_fn
Combine ==
    /\ ensPc = "stage" /\ stage <= Len(Stages(ensFn))
    /\ Stages(ensFn)[stage] # "networks"
    /\ LET fn == Stages(ensFn)[stage]
           r == ApplyProcessor(fn, flow)
       IN  /\ combinerArg' = IF fn = "none" THEN combinerArg ELSE flow
           /\ IF IsErr(r)
              THEN ensPc' = "raised" /\ ensRes' = r /\ UNCHANGED <<flow, stage>>
              ELSE flow' = r /\ stage' = stage + 1 /\ UNCHANGED <<ensPc, ensRes>>
    /\ UNCHANGED <<networks, procs, ensFn, numThreads, nstate, ensCall, task, taskOut,
                   raced, overtaken, startState, avgVars, netVars>>

\* the sequence is through: the call returns the data
Return ==
    /\ ensPc = "stage" /\ stage > Len(Stages(ensFn))
    /\ ensPc' = "returned"
    /\ ensRes' = flow
    /\ UNCHANGED <<networks, procs, ensFn, numThreads, nstate, ensCall, stage, flow,
                   task, taskOut, raced, overtaken, startState, combinerArg,
                   avgVars, netVars>>

Next ==
    \/ \E data \in EnsInputs, reset \in BOOLEAN : EnsProcess(data, reset)
    \/ BeginMap
    \/ \E i \in 1..Len(networks) : StartEval(i)
    \/ \E i \in 1..Len(networks) : FinishEval(i)
    \/ \E i \in 1..Len(networks) : FailEval(i)
    \/ Abort
    \/ Gather
    \/ Combine
    \/ Return

Spec == Init /\ [][Next]_vars

InitNet ==
    /\ layers \in Networks
    /\ lstate = FreshState(layers)
    /\ lastCall = NoCall
    /\ netRes = None
    /\ callLog = <<>>
    /\ prevOp = "none"
    /\ repeated = "none"
    /\ AvgIdle
    /\ EnsIdle

\* network.process(data, reset=reset)
Process(data, reset) ==
    LET r == NetProcess(layers, lstate, data, reset)
    IN  /\ lstate' = r.st
        /\ netRes' = r.out
        /\ callLog' = r.log
        /\ lastCall' = [op |-> "process", data |-> data, reset |-> reset]
        /\ prevOp' = lastCall.op
        /\ repeated' =
            IF reset /\ lastCall = [op |-> "process", data |-> data, reset |-> TRUE]
            THEN IF r.out = netRes THEN "same" ELSE "differs"
            ELSE "none"
        /\ UNCHANGED <<layers, avgVars, ensVars>>

\* network.reset()
Reset ==
    /\ lstate' = NetReset(layers, lstate)
    /\ lastCall' = [op |-> "reset", data |-> None, reset |-> FALSE]
    /\ prevOp' = lastCall.op
    /\ repeated' = "none"
    /\ UNCHANGED <<layers, netRes, callLog, avgVars, ensVars>>

NextNet ==
    \/ \E data \in NetInputs, reset \in BOOLEAN : Process(data, reset)
    \/ Reset

SpecNet == InitNet /\ [][NextNet]_vars

(***************************************************************************)
(* The predictions average_predictions is called with.  An array of the    *)
(* model holds consecutive numbers from its first element on; one element  *)
(* makes a 0-d array (the squeeze of line 121 leaves no axis of size 1).   *)
(* The slots of a tuple of the model are arrays of one length, three apart.*)
(***************************************************************************)
Ramp(b, l) ==
    Arr(IF l = 1 THEN <<>> ELSE <<l>>, [j \in 1..l |-> Rat(b + j - 1)])

Arrays == {Ramp(b, l) : b \in Vals, l \in 1..MaxLen}

TupOf(a, l, b) == Tup([i \in 1..a |-> Ramp(b + 3 * (i - 1), l)])

Tuples ==
    {Tup(<<>>)} \cup {TupOf(a, l, b) : a \in 1..MaxArity, l \in 1..MaxLen, b \in Vals}

\* lists of arrays and non-numeric values, and every list of one prediction
AvgInputs ==
    UNION {[1..n -> Arrays \cup {None}] : n \in 0..MaxN}
        \cup {<<t>> : t \in Tuples}

\* lists of tuples of one arity and one slot length
TupleLists ==
    {[k \in 1..n |-> TupOf(a, l, bs[k])] :
        a \in 1..MaxArity, l \in 1..MaxLen, n \in 2..MaxN, bs \in [1..MaxN -> Vals]}

\* lists whose first member is a tuple
TupInputs ==
    UNION {{l \in [1..n -> Tuples \cup Arrays \cup {None}] : l[1].kind = "tup"} :
                n \in 1..MaxMembers}
        \cup TupleLists

InitAvg ==
    /\ predictions \in AvgInputs
    /\ avgPc = "ready"
    /\ avgRes = None
    /\ NetIdle
    /\ EnsIdle

InitTup ==
    /\ predictions \in TupInputs
    /\ avgPc = "ready"
    /\ avgRes = None
    /\ NetIdle
    /\ EnsIdle

\* one call average_predictions(predictions)
CallAverage ==
    /\ avgPc = "ready"
    /\ avgRes' = AveragePredictions(predictions)
    /\ avgPc' = "done"
    /\ UNCHANGED <<predictions, netVars, ensVars>>

NextAvg == CallAverage

SpecAvg == InitAvg /\ [][NextAvg]_vars

SpecTup == InitTup /\ [][NextAvg]_vars

(***************************************************************************)
(* Claims about average_predictions.                                       *)
(***************************************************************************)
NPreds == Len(predictions)

\* element j of array a read with broadcasting; the inputs hold whole numbers
Elem(a, j) == a.flat[((j - 1) % Len(a.flat)) + 1][1]

RECURSIVE ColSum(_, _, _)
ColSum(arrs, j, k) ==
    IF k = 0 THEN 0 ELSE Elem(arrs[k], j) + ColSum(arrs, j, k - 1)

\* r is an array of the widest shape among arrs whose every element is the sum
\* of the corresponding elements of arrs divided by their number
IsMeanOf(r, arrs) ==
    /\ r.kind = "arr"
    /\ \E k \in 1..Len(arrs) : arrs[k].shape = r.shape
    /\ \A k \in 1..Len(arrs) : Len(arrs[k].flat) <= Len(r.flat)
    /\ \A j \in 1..Len(r.flat) :
        /\ r.flat[j][2] > 0
        /\ r.flat[j][1] * Len(arrs) = r.flat[j][2] * ColSum(arrs, j, Len(arrs))

SameShapeArrays ==
    /\ NPreds >= 2
    /\ \A k \in 1..NPreds :
        predictions[k].kind = "arr" /\ predictions[k].shape = predictions[1].shape

\* C5: for N >= 2 single arrays of one shape, average_predictions returns an
\* array of that shape whose every element is the sum of the corresponding
\* elements of the N inputs divided by N.
Thm_C5_ArrayMean ==
    (avgPc = "done" /\ SameShapeArrays) =>
        /\ avgRes.shape = predictions[1].shape
        /\ IsMeanOf(avgRes, predictions)

\* three arrays of three elements whose first elements average to 1/3
Wit_C5_ArrayMean ==
    /\ avgPc = "done" /\ SameShapeArrays
    /\ NPreds = 3 /\ predictions[1].shape = <<3>>
    /\ avgRes.kind = "arr" /\ avgRes.flat[1] = <<1, 3>>

\* C8: a list of exactly one prediction is answered with that prediction
\* itself, whether it is an array, a tuple or a non-numeric value.
Thm_C8_SingleIdentity ==
    (avgPc = "done" /\ NPreds = 1) => avgRes = predictions[1]

\* the single prediction is a value no arithmetic accepts
Wit_C8_SingleIdentity ==
    /\ avgPc = "done" /\ NPreds = 1
    /\ predictions[1].kind = "none" /\ avgRes = None

SameArityTuples ==
    /\ NPreds >= 2
    /\ \A k \in 1..NPreds :
        /\ predictions[k].kind = "tup"
        /\ Len(predictions[k].items) = Len(predictions[1].items)

SlotGroup(i) == [k \in 1..NPreds |-> predictions[k].items[i]]

SameShapeSlots ==
    \A k \in 1..NPreds : \A i \in 1..Len(predictions[1].items) :
        predictions[k].items[i].shape = predictions[1].items[i].shape

\* C4: for N >= 2 tuples of one arity K, average_predictions returns a tuple
\* of exactly K slots, slot i being the elementwise mean (sum / N) of slot i
\* of the N inputs, in the original slot order.  It returns one whenever the
\* arrays of every slot share a shape, and whatever it returns is one; the
\* only other outcome is the ValueError of arrays that cannot be added.
Thm_C4_TupleMean ==
    (avgPc = "done" /\ SameArityTuples) =>
        /\ SameShapeSlots => avgRes.kind = "tup"
        /\ avgRes.kind \in {"tup", "ValueError"}
        /\ avgRes.kind = "tup" =>
            /\ Len(avgRes.items) = Len(predictions[1].items)
            /\ \A i \in 1..Len(avgRes.items) :
                    IsMeanOf(avgRes.items[i], SlotGroup(i))

\* three tuples of two slots of two elements, the slots averaged apart
Wit_C4_TupleMean ==
    /\ avgPc = "done" /\ SameArityTuples /\ SameShapeSlots
    /\ NPreds = 3 /\ Len(predictions[1].items) = 2
    /\ predictions[1].items[1].shape = <<2>>
    /\ avgRes.kind = "tup" /\ Len(avgRes.items) = 2
    /\ avgRes.items[1].flat[1] = <<1, 3>>
    /\ avgRes.items[2].flat[1] = <<10, 3>>

\* one member is a tuple and another a single array, or two tuples differ in
\* arity
NotHomogeneous ==
    \E k, m \in 1..NPreds :
        \/ predictions[k].kind = "tup" /\ predictions[m].kind = "arr"
        \/ /\ predictions[k].kind = "tup" /\ predictions[m].kind = "tup"
           /\ Len(predictions[k].items) # Len(predictions[m].items)

\* C6 as stated: a list that is not homogeneous always ends in an error and
\* never in a combined prediction.
Orig_C6_MismatchRaises ==
    (avgPc = "done" /\ NPreds >= 2 /\ NotHomogeneous) => IsErr(avgRes)

\* the number of items of member p: a tuple's arity, a 1-d array's length
ItemCount(p) == IF p.kind = "tup" THEN Len(p.items) ELSE p.shape[1]

\* item i of member p
ItemAt(p, i) == IF p.kind = "tup" THEN p.items[i] ELSE Arr(<<>>, <<p.flat[i]>>)

\* C6 as amended: when the first of N >= 2 predictions is a tuple and the
\* list is not homogeneous, the mismatch itself is not detected.  A member
\* that cannot be iterated (a 0-d array, a non-sequence) ends the call in a
\* TypeError; otherwise the members are paired slot by slot up to the
\* shortest one, and the call returns a tuple of that many slots, slot i the
\* mean of the members' i-th items, unless the arrays of a retained slot
\* cannot be added (ValueError).
Thm_C6_MismatchTruncates ==
    (avgPc = "done" /\ NPreds >= 2 /\ predictions[1].kind = "tup" /\ NotHomogeneous) =>
        LET opaque == \E k \in 1..NPreds :
                        \/ predictions[k].kind = "none"
                        \/ predictions[k].kind = "arr" /\ predictions[k].shape = <<>>
        IN  IF opaque THEN avgRes.kind = "TypeError"
            ELSE LET m == CHOOSE c \in 0..(MaxArity + MaxLen) :
                            /\ \E k \in 1..NPreds : ItemCount(predictions[k]) = c
                            /\ \A k \in 1..NPreds : ItemCount(predictions[k]) >= c
                     clash == \E i \in 1..m : \E k1, k2 \in 1..NPreds :
                            LET s1 == ItemAt(predictions[k1], i).shape
                                s2 == ItemAt(predictions[k2], i).shape
                            IN  s1 # <<>> /\ s2 # <<>> /\ s1 # s2
                 IN  IF clash THEN avgRes.kind = "ValueError"
                     ELSE /\ avgRes.kind = "tup"
                          /\ Len(avgRes.items) = m
                          /\ \A i \in 1..m :
                                IsMeanOf(avgRes.items[i],
                                    [k \in 1..NPreds |-> ItemAt(predictions[k], i)])

\* tuples of arities 2 and 1 are combined into a tuple of one slot
Wit_C6_MismatchTruncates ==
    /\ avgPc = "done" /\ NPreds = 2
    /\ predictions[1].kind = "tup" /\ Len(predictions[1].items) = 2
    /\ predictions[2].kind = "tup" /\ Len(predictions[2].items) = 1
    /\ avgRes.kind = "tup" /\ Len(avgRes.items) = 1

(***************************************************************************)
(* Claims about NeuralNetwork.                                             *)
(***************************************************************************)
\* what a network just constructed from the same layers returns for
\* process(data, reset=True)
FreshResult(data) == NetProcess(layers, FreshState(layers), data, TRUE).out

\* C2: whatever calls came before, process(x, reset=True) returns what a
\* freshly constructed network with the same layers returns for it; a
\* process(x, reset=True) that repeats the call before it returns the same.
Thm_C2_ResetFlagClears ==
    /\ (lastCall.op = "process" /\ lastCall.reset) => netRes = FreshResult(lastCall.data)
    /\ repeated # "differs"

\* the same process(x, reset=True) twice in a row on a network whose second
\* layer is recurrent and is left with a state that is not the initial one
Wit_C2_ResetFlagClears ==
    /\ lastCall.op = "process" /\ lastCall.reset
    /\ repeated = "same"
    /\ Len(layers) = 2 /\ layers[2] = "rnn" /\ lstate[2] # InitialH

\* C3: reset() followed by process(x, reset=False) returns what
\* process(x, reset=True) returns on a freshly constructed network with the
\* same layers.
Thm_C3_ResetThenRun ==
    (lastCall.op = "process" /\ ~lastCall.reset /\ prevOp = "reset") =>
        netRes = FreshResult(lastCall.data)

\* reset() then process(x, reset=False) of two frames on two recurrent layers
Wit_C3_ResetThenRun ==
    /\ lastCall.op = "process" /\ ~lastCall.reset /\ prevOp = "reset"
    /\ layers = <<"rnn", "rnn">>
    /\ Len(lastCall.data.shape) = 2 /\ lastCall.data.shape[1] = 2
    /\ netRes = FreshResult(lastCall.data)

\* C9: one process(data, reset) call invokes every layer exactly once, in
\* list order, each with the reset flag of the call; the first layer gets
\* the data made 2-d, and every later layer the output of the layer before.
Thm_C9_LayerChain ==
    lastCall.op = "process" =>
        /\ Len(callLog) = Len(layers)
        /\ \A i \in 1..Len(callLog) :
            /\ callLog[i].layer = i
            /\ callLog[i].reset = lastCall.reset
            /\ i > 1 => callLog[i].input = callLog[i - 1].output
        /\ LET first == callLog[1].input
           IN  /\ first.kind = "arr"
               /\ first.flat = lastCall.data.flat
               /\ Len(first.shape) = 2
               /\ IsSuffix(lastCall.data.shape, first.shape)
               /\ \A d \in 1..(2 - Len(lastCall.data.shape)) : first.shape[d] = 1

\* a call without reset on two layers, made with a 1-d array
Wit_C9_LayerChain ==
    /\ lastCall.op = "process" /\ ~lastCall.reset
    /\ Len(lastCall.data.shape) = 1
    /\ Len(layers) = 2 /\ Len(callLog) = 2
    /\ callLog[2].layer = 2 /\ callLog[2].input = callLog[1].output

(***************************************************************************)
(* Claims about NeuralNetworkEnsemble.                                     *)
(***************************************************************************)
\* instance n is given once in the list of networks
GivenOnce(n) == Cardinality({i \in 1..Len(networks) : networks[i] = n}) = 1

\* what network instance n returns for the data of the call when run alone
\* from the state it had when the call began
OwnResult(n) ==
    NetProcess(Catalog(n), startState[n], ensCall.data, ensCall.reset).out

\* C1: with ensemble_fn=None, whatever the completion order, process
\* returns a list of exactly K elements whose i-th element is what the i-th
\* network given returned for the input.
Thm_C1_ListInNetworkOrder ==
    (ensFn = "none" /\ ensPc = "returned") =>
        /\ ensRes.kind = "list"
        /\ Len(ensRes.items) = Len(networks)
        /\ \A i \in 1..Len(networks) :
            /\ taskOut[i].net = networks[i]
            /\ ensRes.items[i] = taskOut[i].out
            /\ GivenOnce(networks[i]) => ensRes.items[i] = OwnResult(networks[i])

\* two different networks, the second finishing first, with different results
Wit_C1_ListInNetworkOrder ==
    /\ ensFn = "none" /\ ensPc = "returned"
    /\ Len(networks) = 2 /\ networks[1] # networks[2]
    /\ overtaken
    /\ ensRes.kind = "list" /\ ensRes.items[1] # ensRes.items[2]
    /\ ensRes.items[1] = OwnResult(networks[1])

\* C7: once the evaluation of a network has failed, the call cannot return:
\* it ends raising the error, ensemble_fn is not invoked and no list of
\* predictions is returned, whichever evaluations have completed; and
\* ensemble_fn is only ever invoked with the complete list of the K results.
Thm_C7_FailureAborts ==
    /\ (\E i \in 1..Len(task) : task[i] = "failed") =>
            /\ ensPc \in {"mapping", "raised"}
            /\ combinerArg = NotCalled
            /\ ensRes = IF ensPc = "raised" THEN Raised("ValueError") ELSE None
    /\ combinerArg # NotCalled =>
            /\ \A i \in 1..Len(task) : task[i] = "done"
            /\ combinerArg = PyList([i \in 1..Len(task) |-> taskOut[i].out])

\* the first network completed, the second failed, and the call raised
Wit_C7_FailureAborts ==
    /\ ensFn = "average" /\ ensPc = "raised"
    /\ task = <<"done", "failed">>
    /\ taskOut[1].out.kind = "arr"
    /\ combinerArg = NotCalled /\ IsErr(ensRes)

\* no network instance has two evaluations in flight
NoSharedInFlight ==
    \A i, j \in Running : i # j => procs[i] # procs[j]

\* a step that changes the layer state of an instance is the end of an
\* evaluation of that network
OwnStateOnly ==
    \A n \in DOMAIN nstate :
        nstate'[n] # nstate[n] =>
            \E i \in Running : task'[i] # "running" /\ networks[i] = n

\* C10 as stated: for every list of networks an ensemble can be constructed
\* from, no network instance has more than one evaluation in flight.
Orig_C10_NoSharedInFlight == NoSharedInFlight

NoInstanceTwice ==
    \A i, j \in 1..Len(networks) : i # j => networks[i] # networks[j]

\* C10 as amended: for an ensemble constructed from a list in which no
\* network instance occurs twice, or evaluating on a single worker, no
\* instance has more than one evaluation in flight; and for every list each
\* evaluation changes the layer state of its own network only.
Thm_C10_OneEvaluationPerNetwork ==
    /\ []((NoInstanceTwice \/ numThreads = 1) => NoSharedInFlight)
    /\ [][OwnStateOnly]_vars

\* two different networks were in flight at once on two workers; the second
\* has returned and changed its own layer state, the first is still running
\* on a state nothing has touched
Wit_C10_OneEvaluationPerNetwork ==
    /\ NoInstanceTwice /\ numThreads = 2
    /\ task = <<"running", "done">> /\ overtaken
    /\ nstate[networks[2]] # startState[networks[2]]
    /\ nstate[networks[1]] = startState[networks[1]]

====
